---- MODULE Spec2Model ----
(***************************************************************************)
(* Model of DefenderDeploy (src/src/cmd/deploy.ts): the deploy() pipeline, *)
(* the generic wrapper() reconciliation and the six kind adapters,         *)
(* including the nested relayer API-key reconciliation.                    *)
(*                                                                         *)
(* Strings are sequences of tokens; "." is the separator token that        *)
(* getResourceID inserts and that deploySecrets splits on.                 *)
(***************************************************************************)
EXTENDS Integers, Sequences, FiniteSets, TLC

VARIABLES
    ssot,        \* isSSOT(serverless): the template's ssot flag
    decls,       \* the template: kind -> sequence of declarations
    remote,      \* the platform: kind -> set of remote entries
    remoteKeys,  \* the platform: set of relayer API keys
    nextId,      \* next identifier the platform assigns
    output,      \* stdOut: kind -> [created, updated, removed]
    kind,        \* index in Order of the deployX step deploy() is at
    pc,          \* position of the control thread
    i,           \* index of the create/update loop
    existing,    \* result of the latest retrieveExistingResources()
    ctx,         \* locals of the callback or deletion pass in progress
    batch,       \* operations of the Promise.all being awaited
    orphans,     \* operations of a rejected Promise.all, still in flight
    faults,      \* number of collaborator calls that failed so far
    run,         \* number of the deployment run
    started,     \* history: kinds whose deployX was invoked, in order
    returned,    \* history: kinds whose deployX has returned
    caught,      \* history: where exceptions reached a wrapper's catch block
    calls,       \* history: callbacks the wrapper invoked, in order
    results,     \* history: the OperationResults the callbacks returned
    effects,     \* history: remote mutations that took effect
    prefetch,    \* deploySentinels' autotask and notification lists
    report       \* the emitted report (stdout and log file), or NoReport

vars == <<ssot, decls, remote, remoteKeys, nextId, output, kind, pc, i,
          existing, ctx, batch, orphans, faults, run, started, returned,
          caught, calls, results, effects, prefetch, report>>

-----------------------------------------------------------------------------
(* Bounds *)

\* notification declarations in the template
MaxDecl == 3
\* failing collaborator calls that deploy() survives in one behaviour (a
\* failure that rejects deploy() ends the run and needs no bound)
MaxFaults == 1
\* deployment runs in one behaviour (multi-run specification)
MaxRuns == 2

-----------------------------------------------------------------------------
(* Kinds and the template *)

\* the pipeline with the sentinel step moved before the notification step
Order_SentinelsEarly ==
    <<"Secrets", "Contracts", "Relayers", "Autotasks", "Sentinels", "Notifications">>

\* deploy() lines 614-621: the order of the deployX steps
Order == <<"Secrets", "Contracts", "Relayers", "Autotasks", "Notifications", "Sentinels">>

Kinds == {Order[n] : n \in 1..Len(Order)}

KeysKind == "RelayerKeys"

Undefined == <<"undefined">>

\* getStackName(context): the namespace of this deployment
getStackName == <<"A">>

\* the namespace of another stack deployed to the same account
OtherStack == <<"B">>

\* getResourceID(stackName, id) = `${stackName}.${id}`
getResourceID(prefix, id) == prefix \o <<".">> \o id

RECURSIVE SplitFrom(_, _, _)
SplitFrom(s, n, cur) ==
    IF n > Len(s) THEN <<cur>>
    ELSE IF s[n] = "." THEN <<cur>> \o SplitFrom(s, n + 1, <<>>)
    ELSE SplitFrom(s, n + 1, Append(cur, s[n]))

\* String.prototype.split('.')
split(s) == SplitFrom(s, 1, <<>>)

\* arr[n] of a JavaScript array, zero-based; undefined out of range
At(arr, n) == IF n + 1 <= Len(arr) THEN arr[n + 1] ELSE Undefined

LocalName(n) == <<"n" \o ToString(n)>>

\* api-keys of the n-th relayer declaration
ApiKeys(n) == IF n = 1 THEN <<(<<"ka">>), (<<"kb">>)>> ELSE <<>>

\* one declaration: its key in the template and the fields the adapters read
Declaration(n) ==
    [id |-> LocalName(n), network |-> <<"net">>, address |-> <<"a" \o ToString(n)>>,
     keys |-> ApiKeys(n)]

\* declarations of kind k in the template: MaxDecl notifications, three
\* contracts, two of every other kind
DeclCount(k) == IF k = "Notifications" THEN MaxDecl ELSE IF k = "Contracts" THEN 3 ELSE 2

Template == [k \in Kinds |-> [n \in 1..DeclCount(k) |-> Declaration(n)]]

\* Object.keys(resources)
ObjectKeys(resources) == {resources[n].id : n \in 1..Len(resources)}

RECURSIVE SetToSeq(_)
SetToSeq(S) ==
    IF S = {} THEN <<>>
    ELSE LET x == CHOOSE y \in S : TRUE IN <<x>> \o SetToSeq(S \ {x})

Range(s) == {s[n] : n \in 1..Len(s)}

-----------------------------------------------------------------------------
(* Remote entries *)

\* A remote entry: key is what the kind's matching rule reads (the secret
\* name, `${network}-${address}` of a contract, stackResourceId otherwise),
\* rid the identifier the platform assigned, rel the relayerId of an API
\* key's relayer (0 otherwise), owner the namespace that created it.
Entry(key, rid, rel, owner) == [key |-> key, rid |-> rid, rel |-> rel, owner |-> owner]

contractKey(network, address) == network \o <<"-">> \o address

\* DefenderContract.network and DefenderContract.address
network(e) == SubSeq(e.key, 1, 1)
address(e) == SubSeq(e.key, 3, 3)

\* property `field` of a JavaScript string: strings have no such property
PropertyOfString(str, field) == Undefined

\* the key under which the kind stores declaration d of namespace ns
KeyFor(k, ns, d) ==
    IF k = "Secrets" THEN d.id
    ELSE IF k = "Contracts" THEN contractKey(d.network, d.address)
    ELSE getResourceID(ns, d.id)

StaleDecl == [id |-> <<"old">>, network |-> <<"net">>, address |-> <<"aold">>, keys |-> <<>>]

ForeignDecl == [id |-> <<"fb">>, network |-> <<"net">>, address |-> <<"afb">>, keys |-> <<>>]

\* secrets and contracts carry no platform identifier of their own
HasRemoteId(k) == k \notin {"Secrets", "Contracts"}

InitialId(k, n) == IF HasRemoteId(k) THEN n ELSE 0

\* which declarations already have a remote entry when the run starts
Present(k, m) ==
    IF m = "all" THEN 1..DeclCount(k) ELSE IF m = "second" THEN {2} ELSE {}

\* the account when the run starts: entries of this stack's declarations,
\* an entry of this stack no longer declared, an entry of another stack
InitialRemote(m, stale, foreign) ==
    [k \in Kinds |->
        {Entry(KeyFor(k, getStackName, Declaration(n)), InitialId(k, n), 0, getStackName) :
            n \in Present(k, m)}
        \cup (IF stale
              THEN {Entry(KeyFor(k, getStackName, StaleDecl), InitialId(k, MaxDecl + 1), 0, getStackName)}
              ELSE {})
        \cup (IF foreign
              THEN {Entry(KeyFor(k, OtherStack, ForeignDecl), InitialId(k, MaxDecl + 2), 0, OtherStack)}
              ELSE {})]

\* API keys of the first relayer present: key kb of the template when it
\* is relayer n1, and two keys no longer declared
InitialKeys(m, stale) ==
    IF Present("Relayers", m) = {} THEN {}
    ELSE LET n == CHOOSE x \in Present("Relayers", m) : \A y \in Present("Relayers", m) : x <= y
             sid == getResourceID(getStackName, LocalName(n))
         IN  (IF n = 1 THEN {Entry(getResourceID(sid, <<"kb">>), 2, n, getStackName)} ELSE {})
             \cup (IF stale
                   THEN {Entry(getResourceID(sid, <<"kold1">>), 3, n, getStackName),
                         Entry(getResourceID(sid, <<"kold2">>), 4, n, getStackName)}
                   ELSE {})

FirstFreeId == MaxDecl + 3

EmptyOutput == [k \in Kinds \cup {KeysKind} |-> [created |-> <<>>, updated |-> <<>>, removed |-> <<>>]]

NoCtx == [m |-> Entry(<<>>, 0, 0, <<>>), rm |-> {}, mk |-> {}, cb |-> "none"]

NoReport == [emitted |-> FALSE, out |-> EmptyOutput]

NoPrefetch == [autotasks |-> {}, notifications |-> {}, done |-> FALSE]

-----------------------------------------------------------------------------
(* Matching *)

\* the kinds that pass an overrideMatchDefinition to wrapper
HasOverride(k) == k \in {"Secrets", "Contracts"}

\* every kind, relayers too, passing an onRemove to wrapper
HasOnRemove_Relayers(k) == TRUE

\* the kinds that pass an onRemove to wrapper
HasOnRemove(k) == k # "Relayers"

\* deploySecrets' overrideMatchDefinition: a === b
secretsMatch(a, b) == a.key = b

\* deployContracts' overrideMatchDefinition on a resource's fields
contractsMatch(a, bAddress, bNetwork) == address(a) = bAddress /\ network(a) = bNetwork

\* the comparator of the deletion pass: b is a key of Object.keys(resources)
MatchesKey(k, a, b) ==
    IF k = "Secrets" THEN secretsMatch(a, b)
    ELSE IF k = "Contracts"
    THEN contractsMatch(a, PropertyOfString(b, "address"), PropertyOfString(b, "network"))
    ELSE a.key = getResourceID(getStackName, b)

\* differenceWith(existing, Object.keys(resources), comparator)
inDefenderButNotInTemplate(k, ex, resources) ==
    {a \in ex : \A b \in ObjectKeys(resources) : ~MatchesKey(k, a, b)}

\* the predicate of existing.find in the create/update pass
MatchesDecl(k, e, d) ==
    IF k = "Secrets" THEN secretsMatch(e, d.id)
    ELSE IF k = "Contracts" THEN contractsMatch(e, d.address, d.network)
    ELSE e.key = getResourceID(getStackName, d.id)

Matches(k, ex, d) == {e \in ex : MatchesDecl(k, e, d)}

\* isSSOT(context)
isSSOT == ssot

\* line 491 without the SSOT test
RemovalEnabled_Ungated(k) == HasOnRemove(k)

\* wrapper line 491: isSSOT(context) && onRemove
RemovalEnabled(k) == isSSOT /\ HasOnRemove(k)

\* deployRelayers line 203: isSSOT(this.serverless) && inDefender.length > 0
KeyRemovalEnabled(del) == isSSOT /\ del # {}

-----------------------------------------------------------------------------
(* Collaborator calls *)

\* the kind deploy() is at
K == Order[kind]

\* a collaborator call returns (TRUE) or throws (FALSE)
Outcomes == IF faults < MaxFaults THEN {TRUE, FALSE} ELSE {TRUE}

Fault(ok) == faults' = IF ok THEN faults ELSE faults + 1

\* an operation of a Promise.all: "ok", "fail" (the remote call throws) or,
\* for a key creation, "persist" (the key is created, writeFile throws)
Results(o) ==
    IF faults < MaxFaults
    THEN (IF o.op = "createKey" THEN {"ok", "fail", "persist"} ELSE {"ok", "fail"})
    ELSE {"ok"}

Op(op, k, e) == [op |-> op, kind |-> k, e |-> e]

Eff(act, k, e) == [act |-> act, kind |-> k, e |-> e]

Call(cb, k, n, arg) == [cb |-> cb, kind |-> k, n |-> n, arg |-> arg]

Push(out, k, list, x) == [out EXCEPT ![k][list] = Append(@, x)]

\* a deletion step that leaves out the push of the removed entries
PushAll_Omitted(out, k, list, S) == out

PushAll(out, k, list, S) == [out EXCEPT ![k][list] = @ \o SetToSeq(S)]

\* the list a successful result of callback cb is pushed to
ListOf(cb) == IF cb = "onUpdate" THEN "updated" ELSE "created"

\* the createKey operations of relayer rel (stackResourceId rel.key) for key names names
KeyOps(rel, names) ==
    {Op("createKey", KeysKind, Entry(getResourceID(rel.key, name), 0, rel.rid, getStackName)) :
        name \in names}

\* platform and stdOut after operation o of a Promise.all settles with result r
AfterOp(o, r) ==
    LET same == [remote |-> remote, keys |-> remoteKeys, nextId |-> nextId,
                 effects |-> effects, output |-> output]
    IN  IF r = "fail" THEN same
        ELSE IF o.op = "delete"
        THEN IF o.e \in remote[o.kind]
             THEN [same EXCEPT !.remote = [remote EXCEPT ![o.kind] = @ \ {o.e}],
                               !.effects = effects \cup {Eff("delete", o.kind, o.e)}]
             ELSE same
        ELSE IF o.op = "deleteKey"
        THEN IF o.e \in remoteKeys
             THEN [same EXCEPT !.keys = remoteKeys \ {o.e},
                               !.effects = effects \cup {Eff("delete", KeysKind, o.e)}]
             ELSE same
        ELSE LET key == [o.e EXCEPT !.rid = nextId]
             IN  [same EXCEPT !.keys = remoteKeys \cup {key},
                              !.nextId = nextId + 1,
                              !.effects = effects \cup {Eff("create", KeysKind, key)},
                              !.output = IF r = "ok" THEN Push(output, KeysKind, "created", key)
                                         ELSE output]

\* a catch block inside the loop: the pass goes on after the exception
Catch_InsideLoop ==
    /\ pc' = "loop"
    /\ caught' = caught \cup {[kind |-> K, pc |-> pc, i |-> i]}
    /\ ctx' = NoCtx
    /\ UNCHANGED results

\* wrapper's catch block (lines 552-558): the kind is over
Catch ==
    /\ pc' = "return"
    /\ caught' = caught \cup {[kind |-> K, pc |-> pc, i |-> i]}
    /\ ctx' = NoCtx
    /\ UNCHANGED results

\* the kinds whose wrapper caught an exception
CaughtKinds == {c.kind : c \in caught}

\* lines 531 and 543: the callback is invoked
Invoke(cb, arg) == calls' = Append(calls, Call(cb, K, i, arg))

\* an OperationResult: the callback that returned it, success, whether it
\* carries a notice, and response
Result(cb, success, notice, resp) ==
    [cb |-> cb, success |-> success, notice |-> notice, resp |-> resp]

\* a wrapper whose loop ends at the first result with success = false
Finish_BreakOnFailure(out, res) ==
    /\ output' = out
    /\ results' = results \cup {[kind |-> K, n |-> i, cb |-> res.cb, success |-> res.success,
                                  notice |-> res.notice, resp |-> res.resp]}
    /\ pc' = IF res.success THEN "loop" ELSE "return"
    /\ i' = i + 1
    /\ ctx' = NoCtx
    /\ UNCHANGED caught

\* the callback returned res; out is stdOut after lines 532-537 or 544-549
Finish(out, res) ==
    /\ output' = out
    /\ results' = results \cup {[kind |-> K, n |-> i, cb |-> res.cb, success |-> res.success,
                                  notice |-> res.notice, resp |-> res.resp]}
    /\ pc' = "loop"
    /\ i' = i + 1
    /\ ctx' = NoCtx
    /\ UNCHANGED caught

-----------------------------------------------------------------------------
(* deploy() and the deployX steps *)

\* the state when deploy() is invoked: the variables of one run
RunStart ==
    /\ output = EmptyOutput
    /\ kind = 1
    /\ pc = "start"
    /\ i = 0
    /\ existing = {}
    /\ ctx = NoCtx
    /\ batch = {}
    /\ orphans = {}
    /\ started = <<>>
    /\ returned = {}
    /\ caught = {}
    /\ calls = <<>>
    /\ results = {}
    /\ effects = {}
    /\ prefetch = NoPrefetch
    /\ report = NoReport

\* a first run against an account that holds entries of earlier deployments
\* of this stack, declared (all, or the second of each kind) and no longer
\* declared, and an entry of another stack
Init ==
    /\ ssot \in BOOLEAN
    /\ decls = Template
    /\ \E m \in {"second", "all"} :
          /\ remote = InitialRemote(m, TRUE, TRUE)
          /\ remoteKeys = InitialKeys(m, TRUE)
    /\ nextId = FirstFreeId
    /\ faults = 0
    /\ run = 1
    /\ RunStart

\* a first run against an account that holds nothing of this template
InitRuns ==
    /\ ssot \in BOOLEAN
    /\ decls = Template
    /\ \E drift \in BOOLEAN :
          /\ remote = InitialRemote("none", drift, drift)
          /\ remoteKeys = InitialKeys("none", drift)
    /\ nextId = FirstFreeId
    /\ faults = 0
    /\ run = 1
    /\ RunStart

\* deploy() invokes the next deployX (lines 614-621)
StartKind ==
    /\ pc = "start"
    /\ started' = Append(started, K)
    /\ pc' = IF K = "Sentinels" THEN "listAutotasks" ELSE "retrieve"
    /\ UNCHANGED <<results, ssot, decls, remote, remoteKeys, nextId, output, kind, i, existing, ctx,
                   batch, orphans, faults, run, returned, caught, calls, effects, prefetch,
                   report>>

\* deploySentinels line 341, outside wrapper's try: a throw rejects deploy()
ListAutotasks ==
    /\ pc = "listAutotasks"
    /\ \E ok \in BOOLEAN :
          /\ Fault(ok)
          /\ IF ok
             THEN /\ prefetch' = [prefetch EXCEPT !.autotasks = remote["Autotasks"]]
                  /\ pc' = "listNotifications"
             ELSE /\ pc' = "rejected"
                  /\ UNCHANGED prefetch
    /\ UNCHANGED <<results, ssot, decls, remote, remoteKeys, nextId, output, kind, i, existing, ctx,
                   batch, orphans, run, started, returned, caught, calls, effects, report>>

\* deploySentinels line 342, outside wrapper's try
ListNotifications ==
    /\ pc = "listNotifications"
    /\ \E ok \in BOOLEAN :
          /\ Fault(ok)
          /\ IF ok
             THEN /\ prefetch' = [prefetch EXCEPT !.notifications = remote["Notifications"],
                                                  !.done = TRUE]
                  /\ pc' = "retrieve"
             ELSE /\ pc' = "rejected"
                  /\ UNCHANGED prefetch
    /\ UNCHANGED <<results, ssot, decls, remote, remoteKeys, nextId, output, kind, i, existing, ctx,
                   batch, orphans, run, started, returned, caught, calls, effects, report>>

\* wrapper line 488: the first retrieveExistingResources()
RetrieveExisting ==
    /\ pc = "retrieve"
    /\ \E ok \in Outcomes :
          /\ Fault(ok)
          /\ IF ok
             THEN /\ existing' = remote[K]
                  /\ pc' = "remove"
                  /\ UNCHANGED <<caught, ctx>>
             ELSE /\ Catch
                  /\ UNCHANGED existing
    /\ UNCHANGED <<results, ssot, decls, remote, remoteKeys, nextId, output, kind, i, batch, orphans,
                   run, started, returned, calls, effects, prefetch, report>>

\* wrapper lines 490-504: the deletion pass. deploySecrets' onRemove is one
\* createSecrets call (lines 109-114); the other kinds' onRemove issue one
\* delete per entry in a Promise.all (lines 158, 331, 377, 465)
DeletionPass ==
    /\ pc = "remove"
    /\ LET un == inDefenderButNotInTemplate(K, existing, decls[K])
       IN  IF ~RemovalEnabled(K) \/ un = {}
           THEN /\ pc' = "loop"
                /\ i' = 1
                /\ UNCHANGED <<remote, output, ctx, batch, faults, caught, calls, effects>>
           ELSE /\ calls' = Append(calls, Call("onRemove", K, 0, un))
                /\ IF K = "Secrets"
                   THEN /\ \E ok \in Outcomes :
                              /\ Fault(ok)
                              /\ IF ok
                                 THEN /\ remote' = [remote EXCEPT ![K] = @ \ un]
                                      /\ effects' = effects \cup {Eff("delete", K, e) : e \in un}
                                      /\ output' = PushAll(output, K, "removed", un)
                                      /\ pc' = "loop"
                                      /\ i' = 1
                                      /\ UNCHANGED <<ctx, caught>>
                                 ELSE /\ Catch
                                      /\ UNCHANGED <<remote, effects, output, i>>
                        /\ UNCHANGED batch
                   ELSE /\ batch' = {Op("delete", K, e) : e \in un}
                        /\ ctx' = [NoCtx EXCEPT !.rm = un, !.cb = "onRemove"]
                        /\ pc' = "awaitRemove"
                        /\ UNCHANGED <<remote, output, i, faults, caught, effects>>
    /\ UNCHANGED <<results, ssot, decls, remoteKeys, nextId, kind, existing, orphans, run, started,
                   returned, prefetch, report>>

\* a key batch with an error boundary of its own: its failure is logged and
\* the relayer callback returns its result as if the batch had succeeded
BatchOpDone_OwnBoundary ==
    /\ pc \in {"awaitRemove", "awaitKeyDelete", "awaitKeyCreate"}
    /\ \E o \in batch :
         \E r \in Results(o) :
           LET a == AfterOp(o, r)
               rest == batch \ {o}
           IN  /\ remote' = a.remote
               /\ remoteKeys' = a.keys
               /\ nextId' = a.nextId
               /\ effects' = a.effects
               /\ faults' = IF r = "ok" THEN faults ELSE faults + 1
               /\ IF r # "ok" /\ pc = "awaitRemove"
                  THEN /\ orphans' = orphans \cup rest
                       /\ batch' = {}
                       /\ Catch
                       /\ output' = a.output
                       /\ UNCHANGED i
                  ELSE IF r # "ok"
                  THEN /\ orphans' = orphans \cup rest
                       /\ batch' = {}
                       /\ caught' = caught \cup {[kind |-> K, pc |-> pc, i |-> i]}
                       /\ output' = Push(a.output, K, ListOf(ctx.cb), ctx.m)
                       /\ results' = results \cup {[kind |-> K, n |-> i, cb |-> ctx.cb,
                                                     success |-> TRUE, notice |-> FALSE,
                                                     resp |-> ctx.m]}
                       /\ pc' = "loop"
                       /\ i' = i + 1
                       /\ ctx' = NoCtx
                  ELSE IF rest # {}
                  THEN /\ batch' = rest
                       /\ output' = a.output
                       /\ UNCHANGED <<pc, i, ctx, orphans, caught, results>>
                  ELSE IF pc = "awaitRemove"
                  THEN /\ output' = PushAll(a.output, K, "removed", ctx.rm)
                       /\ pc' = "loop"
                       /\ i' = 1
                       /\ ctx' = NoCtx
                       /\ batch' = {}
                       /\ UNCHANGED <<orphans, caught, results>>
                  ELSE IF pc = "awaitKeyDelete" /\ ctx.mk # {}
                  THEN /\ output' = PushAll(a.output, KeysKind, "removed", ctx.rm)
                       /\ batch' = KeyOps(ctx.m, ctx.mk)
                       /\ pc' = "awaitKeyCreate"
                       /\ ctx' = [ctx EXCEPT !.rm = {}, !.mk = {}]
                       /\ UNCHANGED <<i, orphans, caught, results>>
                  ELSE /\ Finish(Push(IF pc = "awaitKeyDelete"
                                      THEN PushAll(a.output, KeysKind, "removed", ctx.rm)
                                      ELSE a.output,
                                      K, ListOf(ctx.cb), ctx.m),
                                 Result(ctx.cb, TRUE, FALSE, ctx.m))
                       /\ batch' = {}
                       /\ UNCHANGED orphans
    /\ UNCHANGED <<ssot, decls, kind, existing, run, started, returned, calls, prefetch,
                   report>>

\* one operation of the awaited Promise.all settles. A rejection rejects the
\* Promise.all at once: the exception reaches wrapper's catch while the other
\* operations stay in flight. When the last one resolves the code after the
\* await runs: lines 501-503, 208-232 or 234-239/280-285 and 532-535/544-547
BatchOpDone ==
    /\ pc \in {"awaitRemove", "awaitKeyDelete", "awaitKeyCreate"}
    /\ \E o \in batch :
         \E r \in Results(o) :
           LET a == AfterOp(o, r)
               rest == batch \ {o}
           IN  /\ remote' = a.remote
               /\ remoteKeys' = a.keys
               /\ nextId' = a.nextId
               /\ effects' = a.effects
               /\ faults' = IF r = "ok" THEN faults ELSE faults + 1
               /\ IF r # "ok"
                  THEN /\ orphans' = orphans \cup rest
                       /\ batch' = {}
                       /\ Catch
                       /\ output' = a.output
                       /\ UNCHANGED i
                  ELSE IF rest # {}
                  THEN /\ batch' = rest
                       /\ output' = a.output
                       /\ UNCHANGED <<pc, i, ctx, orphans, caught, results>>
                  ELSE IF pc = "awaitRemove"
                  THEN /\ output' = PushAll(a.output, K, "removed", ctx.rm)
                       /\ pc' = "loop"
                       /\ i' = 1
                       /\ ctx' = NoCtx
                       /\ batch' = {}
                       /\ UNCHANGED <<orphans, caught, results>>
                  ELSE IF pc = "awaitKeyDelete" /\ ctx.mk # {}
                  THEN /\ output' = PushAll(a.output, KeysKind, "removed", ctx.rm)
                       /\ batch' = KeyOps(ctx.m, ctx.mk)
                       /\ pc' = "awaitKeyCreate"
                       /\ ctx' = [ctx EXCEPT !.rm = {}, !.mk = {}]
                       /\ UNCHANGED <<i, orphans, caught, results>>
                  ELSE /\ Finish(Push(IF pc = "awaitKeyDelete"
                                      THEN PushAll(a.output, KeysKind, "removed", ctx.rm)
                                      ELSE a.output,
                                      K, ListOf(ctx.cb), ctx.m),
                                 Result(ctx.cb, TRUE, FALSE, ctx.m))
                       /\ batch' = {}
                       /\ UNCHANGED orphans
    /\ UNCHANGED <<ssot, decls, kind, existing, run, started, returned, calls, prefetch,
                   report>>

\* an operation of a rejected Promise.all settles: nothing awaits it, its
\* remote effect and (line 229/275) its push to relayerKeys.created happen
OrphanDone ==
    /\ \E o \in orphans :
         \E r \in Results(o) :
           LET a == AfterOp(o, r)
           IN  /\ remote' = a.remote
               /\ remoteKeys' = a.keys
               /\ nextId' = a.nextId
               /\ effects' = a.effects
               /\ output' = a.output
               /\ faults' = IF r = "ok" THEN faults ELSE faults + 1
               /\ orphans' = orphans \ {o}
    /\ UNCHANGED <<results, ssot, decls, kind, pc, i, existing, ctx, batch, run, started, returned,
                   caught, calls, prefetch, report>>

\* a loop that matches every declaration against the set of the first fetch
LoopFetch_NoRefetch ==
    /\ pc = "loop"
    /\ IF i > Len(decls[K])
       THEN /\ pc' = "return"
            /\ UNCHANGED <<existing, faults, caught, ctx>>
       ELSE /\ pc' = "match"
            /\ UNCHANGED <<existing, faults, caught, ctx>>
    /\ UNCHANGED <<results, ssot, decls, remote, remoteKeys, nextId, output, kind, i, batch, orphans,
                   run, started, returned, calls, effects, prefetch, report>>

\* wrapper lines 506-508: the loop's next iteration re-fetches the remote set
LoopFetch ==
    /\ pc = "loop"
    /\ IF i > Len(decls[K])
       THEN /\ pc' = "return"
            /\ UNCHANGED <<existing, faults, caught, ctx>>
       ELSE \E ok \in Outcomes :
              /\ Fault(ok)
              /\ IF ok
                 THEN /\ existing' = remote[K]
                      /\ pc' = "match"
                      /\ UNCHANGED <<caught, ctx>>
                 ELSE /\ Catch
                      /\ UNCHANGED existing
    /\ UNCHANGED <<results, ssot, decls, remote, remoteKeys, nextId, output, kind, i, batch, orphans,
                   run, started, returned, calls, effects, prefetch, report>>

-----------------------------------------------------------------------------
(* The create/update pass: wrapper lines 510-550 and the adapters' callbacks *)

\* a loop that walks the declarations from the last to the first
Decl_Reversed == decls[K][Len(decls[K]) + 1 - i]

\* the declaration of this iteration
Decl == decls[K][i]

\* entryStackResourceId (line 510)
entryStackResourceId == getResourceID(getStackName, Decl.id)

\* existing.find(...) (lines 511-518) found m, for kind k
Matched(k, m) == pc = "match" /\ K = k /\ m \in Matches(K, existing, Decl)

\* a wrapper that takes the create path whether or not a match was found
Unmatched_Always(k) == pc = "match" /\ K = k

\* existing.find(...) found nothing, for kind k
Unmatched(k) == pc = "match" /\ K = k /\ Matches(K, existing, Decl) = {}

\* what no callback touches
CallbackFrame ==
    UNCHANGED <<ssot, decls, kind, existing, orphans, run, started, returned, prefetch, report>>

\* a callback made of one remote mutation: on success the platform becomes
\* rem, eff took effect and resp is pushed to list; a throw reaches the catch
OneCall(rem, id, eff, list, resp) ==
    /\ \E ok \in Outcomes :
          /\ Fault(ok)
          /\ IF ok
             THEN /\ remote' = [remote EXCEPT ![K] = rem]
                  /\ nextId' = id
                  /\ effects' = effects \cup {eff}
                  /\ Finish(Push(output, K, list, resp),
                            Result(IF list = "updated" THEN "onUpdate" ELSE "onCreate", TRUE, FALSE,
                                   resp))
             ELSE /\ Catch
                  /\ UNCHANGED <<remote, nextId, effects, output, i>>
    /\ UNCHANGED <<remoteKeys, batch>>
    /\ CallbackFrame

\* deploySecrets on update (lines 77-91): createSecrets writes the entry
SecretsOnUpdate ==
    \E m \in existing :
       /\ Matched("Secrets", m)
       /\ Invoke("onUpdate", {m})
       /\ OneCall(remote[K] \cup {m}, nextId, Eff("update", K, m), "updated", m)

\* deploySecrets on create (lines 93-107): the name is stackResourceId.split('.')[1]
SecretsOnCreate ==
    /\ Unmatched("Secrets")
    /\ Invoke("onCreate", {entryStackResourceId})
    /\ LET name == At(split(entryStackResourceId), 1)
           new == Entry(name, 0, 0, getStackName)
           old == {e \in remote[K] : e.key = name}
       IN  OneCall((remote[K] \ old) \cup {new}, nextId,
                   IF old = {} THEN Eff("create", K, new)
                   ELSE Eff("update", K, CHOOSE e \in old : TRUE),
                   "created", new)

\* a wrapper that pushes the response without reading result.success
ContractsOnUpdate_PushedAnyway ==
    \E m \in existing :
       /\ Matched("Contracts", m)
       /\ Invoke("onUpdate", {m})
       /\ Finish(Push(output, K, "updated", NoCtx.m), Result("onUpdate", FALSE, TRUE, NoCtx.m))
       /\ UNCHANGED <<remote, remoteKeys, nextId, batch, faults, effects>>
       /\ CallbackFrame

\* deployContracts on update (lines 132-139): no remote call, success: false
ContractsOnUpdate ==
    \E m \in existing :
       /\ Matched("Contracts", m)
       /\ Invoke("onUpdate", {m})
       /\ Finish(output, Result("onUpdate", FALSE, TRUE, NoCtx.m))
       /\ UNCHANGED <<remote, remoteKeys, nextId, batch, faults, effects>>
       /\ CallbackFrame

\* deployContracts on create (lines 141-155): addContract
ContractsOnCreate ==
    /\ Unmatched("Contracts")
    /\ Invoke("onCreate", {entryStackResourceId})
    /\ LET new == Entry(contractKey(Decl.network, Decl.address), 0, 0, getStackName)
       IN  OneCall(remote[K] \cup {new}, nextId, Eff("create", K, new), "created", new)

\* deployNotifications on update (lines 305-316)
NotificationsOnUpdate ==
    \E m \in existing :
       /\ Matched("Notifications", m)
       /\ Invoke("onUpdate", {m})
       /\ OneCall(remote[K], nextId, Eff("update", K, m), "updated", m)

\* deployNotifications on create (lines 318-328)
NotificationsOnCreate ==
    /\ Unmatched("Notifications")
    /\ Invoke("onCreate", {entryStackResourceId})
    /\ LET new == Entry(entryStackResourceId, nextId, 0, getStackName)
       IN  OneCall(remote[K] \cup {new}, nextId + 1, Eff("create", K, new), "created", new)

\* deploySentinels on update (lines 351-362)
SentinelsOnUpdate ==
    \E m \in existing :
       /\ Matched("Sentinels", m)
       /\ Invoke("onUpdate", {m})
       /\ OneCall(remote[K], nextId, Eff("update", K, m), "updated", m)

\* deploySentinels on create (lines 364-374)
SentinelsOnCreate ==
    /\ Unmatched("Sentinels")
    /\ Invoke("onCreate", {entryStackResourceId})
    /\ LET new == Entry(entryStackResourceId, nextId, 0, getStackName)
       IN  OneCall(remote[K] \cup {new}, nextId + 1, Eff("create", K, new), "created", new)

\* newDigest === codeDigest (line 414): in the template the code of autotask
\* n2 is the code already uploaded, the code of the others has changed
CodeUnchanged(d) == d.id = LocalName(2)

\* deployAutotasks on update (lines 396-431): the digests are read and the
\* autotask updated; the code is uploaded when the digests differ
AutotasksOnUpdate ==
    \E m \in existing :
       /\ Matched("Autotasks", m)
       /\ Invoke("onUpdate", {m})
       /\ \E ok \in Outcomes :
             /\ Fault(ok)
             /\ IF ok
                THEN /\ effects' = effects \cup {Eff("update", K, m)}
                     /\ IF CodeUnchanged(Decl)
                           THEN Finish(Push(output, K, "updated", m),
                                       Result("onUpdate", TRUE, TRUE, m))
                           ELSE /\ pc' = "updateCode"
                                /\ ctx' = [NoCtx EXCEPT !.m = m, !.cb = "onUpdate"]
                                /\ UNCHANGED <<output, i, caught, results>>
                ELSE /\ Catch
                     /\ UNCHANGED <<effects, output, i>>
       /\ UNCHANGED <<remote, remoteKeys, nextId, batch>>
       /\ CallbackFrame

\* deployAutotasks on update, line 423: updateCodeFromFolder
UpdateCode ==
    /\ pc = "updateCode"
    /\ \E ok \in Outcomes :
          /\ Fault(ok)
          /\ IF ok
             THEN Finish(Push(output, K, "updated", ctx.m),
                         Result("onUpdate", TRUE, FALSE, ctx.m))
             ELSE /\ Catch
                  /\ UNCHANGED <<output, i>>
    /\ UNCHANGED <<remote, remoteKeys, nextId, batch, calls, effects>>
    /\ CallbackFrame

\* deployAutotasks on create (lines 433-462)
AutotasksOnCreate ==
    /\ Unmatched("Autotasks")
    /\ Invoke("onCreate", {entryStackResourceId})
    /\ LET new == Entry(entryStackResourceId, nextId, 0, getStackName)
       IN  OneCall(remote[K] \cup {new}, nextId + 1, Eff("create", K, new), "created", new)

\* deployRelayers on update, lines 183-191: client.update
RelayersOnUpdate ==
    \E m \in existing :
       /\ Matched("Relayers", m)
       /\ Invoke("onUpdate", {m})
       /\ \E ok \in Outcomes :
             /\ Fault(ok)
             /\ IF ok
                THEN /\ effects' = effects \cup {Eff("update", K, m)}
                     /\ pc' = "listKeys"
                     /\ ctx' = [NoCtx EXCEPT !.m = m, !.cb = "onUpdate"]
                     /\ UNCHANGED <<caught, results>>
                ELSE /\ Catch
                     /\ UNCHANGED effects
       /\ UNCHANGED <<remote, remoteKeys, nextId, output, i, batch>>
       /\ CallbackFrame

\* an on-update that does not read the relayer's keys back from the platform
existingRelayerKeys_None(match) == {}

\* existingRelayerKeys: client.listKeys(match.relayerId) (line 194)
existingRelayerKeys(match) == {x \in remoteKeys : x.rel = match.rid}

\* inDefender computed against the stack name instead of the relayer's stackResourceId
inDefender_StackPrefix(match, configuredKeys) ==
    {a \in existingRelayerKeys(match) :
        \A b \in Range(configuredKeys) : a.key # getResourceID(getStackName, b)}

\* inDefender (lines 196-200): the remote keys no configured key names
inDefender(match, configuredKeys) ==
    {a \in existingRelayerKeys(match) :
        \A b \in Range(configuredKeys) : a.key # getResourceID(match.key, b)}

\* inTemplate that keeps every configured key
inTemplate_All(match, configuredKeys) == Range(configuredKeys)

\* inTemplate (lines 212-216): the configured keys with no remote key
inTemplate(match, configuredKeys) ==
    {a \in Range(configuredKeys) :
        \A b \in existingRelayerKeys(match) : getResourceID(match.key, a) # b.key}

\* deployRelayers on update, lines 194-232: listKeys, then the deletions (SSOT
\* only) are issued as one Promise.all, the creations as another
ListKeys ==
    /\ pc = "listKeys"
    /\ \E ok \in Outcomes :
          /\ Fault(ok)
          /\ IF ~ok
             THEN /\ Catch
                  /\ UNCHANGED <<output, i, batch>>
             ELSE LET del == inDefender(ctx.m, Decl.keys)
                      new == inTemplate(ctx.m, Decl.keys)
                  IN  IF KeyRemovalEnabled(del)
                      THEN /\ batch' = {Op("deleteKey", KeysKind, e) : e \in del}
                           /\ ctx' = [ctx EXCEPT !.rm = del, !.mk = new]
                           /\ pc' = "awaitKeyDelete"
                           /\ UNCHANGED <<output, i, caught, results>>
                      ELSE IF new # {}
                      THEN /\ batch' = KeyOps(ctx.m, new)
                           /\ pc' = "awaitKeyCreate"
                           /\ UNCHANGED <<output, i, ctx, caught, results>>
                      ELSE /\ Finish(Push(output, K, "updated", ctx.m),
                                     Result("onUpdate", TRUE, FALSE, ctx.m))
                           /\ UNCHANGED batch
    /\ UNCHANGED <<remote, remoteKeys, nextId, calls, effects>>
    /\ CallbackFrame

\* deployRelayers on create (lines 242-286): the relayer is created, then
\* its keys in one Promise.all
RelayersOnCreate ==
    /\ Unmatched("Relayers")
    /\ Invoke("onCreate", {entryStackResourceId})
    /\ \E ok \in Outcomes :
          /\ Fault(ok)
          /\ IF ~ok
             THEN /\ Catch
                  /\ UNCHANGED <<remote, nextId, effects, output, i, batch>>
             ELSE LET createdRelayer == Entry(entryStackResourceId, nextId, 0, getStackName)
                  IN  /\ remote' = [remote EXCEPT ![K] = @ \cup {createdRelayer}]
                      /\ nextId' = nextId + 1
                      /\ effects' = effects \cup {Eff("create", K, createdRelayer)}
                      /\ IF Decl.keys # <<>>
                         THEN /\ batch' = KeyOps(createdRelayer, Range(Decl.keys))
                              /\ ctx' = [NoCtx EXCEPT !.m = createdRelayer, !.cb = "onCreate"]
                              /\ pc' = "awaitKeyCreate"
                              /\ UNCHANGED <<output, i, caught, results>>
                         ELSE /\ Finish(Push(output, K, "created", createdRelayer),
                                        Result("onCreate", TRUE, FALSE, createdRelayer))
                              /\ UNCHANGED batch
    /\ UNCHANGED remoteKeys
    /\ CallbackFrame

\* the deployX step returns to deploy() (wrapper returned, normally or
\* through its catch block)
Return ==
    /\ pc = "return"
    /\ returned' = returned \cup {K}
    /\ IF kind < Len(Order)
       THEN /\ kind' = kind + 1
            /\ pc' = "start"
       ELSE /\ pc' = "emit"
            /\ UNCHANGED kind
    /\ UNCHANGED <<results, ssot, decls, remote, remoteKeys, nextId, output, i, existing, ctx, batch,
                   orphans, faults, run, started, caught, calls, effects, prefetch, report>>

\* deploy() lines 623-630: the report is printed and appended to the log file
Emit ==
    /\ pc = "emit"
    /\ report' = [emitted |-> TRUE, out |-> output]
    /\ pc' = "done"
    /\ UNCHANGED <<results, ssot, decls, remote, remoteKeys, nextId, output, kind, i, existing, ctx,
                   batch, orphans, faults, run, started, returned, caught, calls, effects,
                   prefetch>>

Next ==
    \/ StartKind
    \/ ListAutotasks
    \/ ListNotifications
    \/ RetrieveExisting
    \/ DeletionPass
    \/ BatchOpDone
    \/ OrphanDone
    \/ LoopFetch
    \/ SecretsOnUpdate
    \/ SecretsOnCreate
    \/ ContractsOnUpdate
    \/ ContractsOnCreate
    \/ RelayersOnUpdate
    \/ ListKeys
    \/ RelayersOnCreate
    \/ AutotasksOnUpdate
    \/ UpdateCode
    \/ AutotasksOnCreate
    \/ NotificationsOnUpdate
    \/ NotificationsOnCreate
    \/ SentinelsOnUpdate
    \/ SentinelsOnCreate
    \/ Return
    \/ Emit

Spec == Init /\ [][Next]_vars

\* deploy() is invoked again, by a new process: the previous one has ended,
\* nothing of it is in flight; the template and the account are as it left them
NewRun ==
    /\ pc \in {"done", "rejected"}
    /\ orphans = {}
    /\ run < MaxRuns
    /\ run' = run + 1
    /\ output' = EmptyOutput
    /\ kind' = 1
    /\ pc' = "start"
    /\ i' = 0
    /\ existing' = {}
    /\ ctx' = NoCtx
    /\ batch' = {}
    /\ started' = <<>>
    /\ returned' = {}
    /\ caught' = {}
    /\ calls' = <<>>
    /\ results' = {}
    /\ effects' = {}
    /\ prefetch' = NoPrefetch
    /\ report' = NoReport
    /\ UNCHANGED <<ssot, decls, remote, remoteKeys, nextId, orphans, faults>>

NextRuns == Next \/ NewRun

SpecRuns == InitRuns /\ [][NextRuns]_vars

\* the template after API key kb of the first relayer is taken out of it
WithoutKey(template, name) ==
    [template EXCEPT !["Relayers"][1].keys = SelectSeq(@, LAMBDA x : x # name)]

\* a first run against an account that holds nothing
InitEmpty ==
    /\ ssot \in BOOLEAN
    /\ decls = Template
    /\ remote = InitialRemote("none", FALSE, FALSE)
    /\ remoteKeys = InitialKeys("none", FALSE)
    /\ nextId = FirstFreeId
    /\ faults = 0
    /\ run = 1
    /\ RunStart

\* API key kb is removed from the first relayer's api-keys in the template
\* and deploy() is invoked again, by a new process
NewRunKeyRemoved ==
    /\ pc \in {"done", "rejected"}
    /\ orphans = {}
    /\ run < MaxRuns
    /\ run' = run + 1
    /\ decls' = WithoutKey(decls, <<"kb">>)
    /\ output' = EmptyOutput
    /\ kind' = 1
    /\ pc' = "start"
    /\ i' = 0
    /\ existing' = {}
    /\ ctx' = NoCtx
    /\ batch' = {}
    /\ started' = <<>>
    /\ returned' = {}
    /\ caught' = {}
    /\ calls' = <<>>
    /\ results' = {}
    /\ effects' = {}
    /\ prefetch' = NoPrefetch
    /\ report' = NoReport
    /\ UNCHANGED <<ssot, remote, remoteKeys, nextId, orphans, faults>>

NextKeyRemoved == Next \/ NewRunKeyRemoved

SpecKeyRemoved == InitEmpty /\ [][NextKeyRemoved]_vars

\* repeated deployments of one template against an account that starts empty
SpecRetry == InitEmpty /\ [][NextRuns]_vars

-----------------------------------------------------------------------------
(* Properties *)

\* declaration n of kind k was handed to onUpdate or onCreate
Processed(k, n) ==
    \E j \in 1..Len(calls) :
        calls[j].kind = k /\ calls[j].n = n /\ calls[j].cb \in {"onUpdate", "onCreate"}

\* declaration n of kind k was handed to callback cb
CalledAs(k, n, cb) ==
    \E j \in 1..Len(calls) : calls[j].kind = k /\ calls[j].n = n /\ calls[j].cb = cb

\* deploy() has settled: its promise resolved or rejected
Settled == pc \in {"done", "rejected"}

\* C1: deploy() always runs the six reconciliations and always emits the
\* report, whichever collaborator call fails: when deploy() has settled, each
\* of the six deployX steps was started and the report was emitted.
C1_AlwaysReports ==
    Settled => (Range(started) = Kinds /\ report.emitted)

\* C2: with SSOT disabled no deletion is ever attempted: in every state of
\* the run removed is empty for the six kinds and for relayerKeys, onRemove
\* was never invoked, no delete or deleteKey call is in flight and none took
\* effect.
C2_NoDeletionWithoutSSOT ==
    ~ssot =>
        /\ \A k \in Kinds \cup {KeysKind} : output[k].removed = <<>>
        /\ \A j \in 1..Len(calls) : calls[j].cb # "onRemove"
        /\ \A o \in batch \cup orphans : o.op \notin {"delete", "deleteKey"}
        /\ \A e \in effects : e.act # "delete"

\* a run without SSOT has ended on an account where every kind holds entries
\* that match no declaration, and an updated relayer holds undeclared keys
C2_Witness ==
    /\ ~ssot
    /\ pc = "done"
    /\ \A k \in Kinds : inDefenderButNotInTemplate(k, remote[k], decls[k]) # {}
    /\ \E n \in 1..Len(decls["Relayers"]) :
         \E m \in remote["Relayers"] :
            /\ CalledAs("Relayers", n, "onUpdate")
            /\ MatchesDecl("Relayers", m, decls["Relayers"][n])
            /\ inDefender(m, decls["Relayers"][n].keys) # {}

\* C3: idempotent convergence: when a second fault-free run follows a
\* fault-free run of the same template, with nothing else changing the
\* account in between, its report has created and removed empty for every
\* kind and for relayerKeys, with SSOT enabled or disabled.
C3_IdempotentConvergence ==
    (run = 2 /\ faults = 0 /\ report.emitted) =>
        \A k \in Kinds \cup {KeysKind} :
            report.out[k].created = <<>> /\ report.out[k].removed = <<>>

\* the positions of the control thread inside onUpdate or onCreate
CallbackPcs == {"match", "listKeys", "updateCode", "awaitKeyDelete", "awaitKeyCreate"}

\* onUpdate for declaration n of kind k threw
OnUpdateThrew(k, n) ==
    /\ CalledAs(k, n, "onUpdate")
    /\ \E c \in caught : c.kind = k /\ c.i = n /\ c.pc \in CallbackPcs

\* onUpdate for declaration n of kind k returned success = false
OnUpdateFailed(k, n) ==
    \E r \in results : r.kind = k /\ r.n = n /\ r.cb = "onUpdate" /\ ~r.success

\* x is an element of sequence list
In(x, list) == \E n \in 1..Len(list) : list[n] = x

\* every successful result of kind k is in the created or updated list of out
SuccessesIn(k, out) ==
    \A r \in results : (r.kind = k /\ r.success) => In(r.resp, out[k][ListOf(r.cb)])

\* C4 (as stated): when onUpdate for declaration #2 of a kind threw or
\* returned success = false, and nothing else failed in that kind, then once
\* the kind's step has returned every other declaration of the kind was
\* handed to onUpdate or onCreate and every successful result is in the
\* kind's output.
C4_PartialFailureIsolation ==
    \A k \in returned :
        ( /\ OnUpdateThrew(k, 2) \/ OnUpdateFailed(k, 2)
          /\ \A c \in caught : c.kind = k => (c.i = 2 /\ c.pc \in CallbackPcs) )
        => /\ \A n \in 1..Len(decls[k]) : Processed(k, n)
           /\ SuccessesIn(k, output)

\* C4 (amended): a result with success = false does not stop the loop, an
\* exception does. After onUpdate for #2 returned success = false the loop
\* goes on to #3, and when the kind's step returns without an exception
\* every declaration was processed. When a callback for declaration n threw,
\* the declarations before n were processed and none after n is. In both
\* cases every successful result is in the kind's output.
C4_FailureStopsLoopOnlyOnThrow ==
    \A k \in Kinds :
        /\ (OnUpdateFailed(k, 2) /\ Len(decls[k]) >= 3)
              => \/ Processed(k, 3)
                 \/ K = k /\ k \notin returned /\ i = 3 /\ pc \in {"loop", "match"}
                 \/ [kind |-> k, pc |-> "loop", i |-> 3] \in caught
        /\ (k \in returned /\ k \notin CaughtKinds)
              => \A n \in 1..Len(decls[k]) : Processed(k, n)
        /\ \A c \in caught :
              (c.kind = k /\ c.pc \in CallbackPcs)
              => /\ \A n \in 1..Len(decls[k]) : Processed(k, n) <=> n <= c.i
        /\ SuccessesIn(k, output)

\* the run is over; the second contract returned success = false and the
\* third was processed; the second declaration of another kind threw in
\* onUpdate after the first one had succeeded
C4_Witness ==
    /\ pc = "done"
    /\ OnUpdateFailed("Contracts", 2)
    /\ Processed("Contracts", 3)
    /\ \E k \in Kinds :
          /\ OnUpdateThrew(k, 2)
          /\ Len(decls[k]) >= 3
          /\ \E r \in results : r.kind = k /\ r.n = 1 /\ r.success

\* C5: the deletion pass and the create/update pass use the same matching
\* rule: no remote entry handed to onRemove is matched by a declaration of
\* its kind under the rule of the create/update pass.
C5_SameRuleBothPasses ==
    \A j \in 1..Len(calls) :
        calls[j].cb = "onRemove"
        => \A e \in calls[j].arg :
             \A n \in 1..Len(decls[calls[j].kind]) :
                ~MatchesDecl(calls[j].kind, e, decls[calls[j].kind][n])

\* the identities of the entries of a list of stdOut
Identities(list) == {list[n].key : n \in 1..Len(list)}

\* C6: in every state of a run no resource is both in a kind's created list
\* and in the same kind's removed list (relayerKeys included); a resource is
\* identified by its kind's identity.
C6_NoCreatedAndRemoved ==
    \A k \in Kinds \cup {KeysKind} :
        Identities(output[k].created) \cap Identities(output[k].removed) = {}

\* the list of stdOut that records remote mutation e
Recorded(e, out) ==
    In(e.e, out[e.kind][CASE e.act = "create" -> "created"
                          [] e.act = "update" -> "updated"
                          [] OTHER -> "removed"])

\* the kind whose wrapper performed remote mutation e
EffKind(e) == IF e.kind = KeysKind THEN "Relayers" ELSE e.kind

Position(k) ==
    CASE k = "Secrets" -> 1 [] k = "Contracts" -> 2 [] k = "Relayers" -> 3
      [] k = "Autotasks" -> 4 [] k = "Notifications" -> 5 [] k = "Sentinels" -> 6

\* the control thread is about to issue, or awaits, a collaborator call
AtCollaboratorCall ==
    pc \in {"listAutotasks", "listNotifications", "retrieve", "remove", "awaitRemove", "loop",
            "match", "listKeys", "updateCode", "awaitKeyDelete", "awaitKeyCreate"}

\* C8: the deployX steps are started in the order secrets, contracts,
\* relayers, autotasks, notifications, sentinels; whenever the control thread
\* is at a collaborator call, that call belongs to the kind started last and
\* every kind started before it has returned; the lists the sentinel step
\* reads are fetched after the autotask and notification steps returned.
C8_FixedOrderSequential ==
    /\ \A n \in 1..Len(started) : Position(started[n]) = n
    /\ returned \subseteq Range(started)
    /\ \A n \in 1..Len(started) - 1 : started[n] \in returned
    /\ AtCollaboratorCall
          => /\ started # <<>>
             /\ K = started[Len(started)]
             /\ K \notin returned
    /\ \A a \in 1..Len(calls) - 1 : Position(calls[a].kind) <= Position(calls[a + 1].kind)
    /\ (pc \in {"listAutotasks", "listNotifications"} \/ prefetch.done)
          => {"Autotasks", "Notifications"} \subseteq returned

\* the six steps have run, one of them through its catch block, and the
\* sentinel step has read both lists
C8_Witness ==
    /\ pc = "done"
    /\ Len(started) = 6
    /\ caught # {}
    /\ prefetch.done
    /\ \E j \in 1..Len(calls) : calls[j].kind = "Sentinels"

\* C9: an exception raised inside one kind's reconciliation is caught by
\* that kind's wrapper, and every later kind is still reconciled with its
\* results in the report: when deploy() has settled after a wrapper caught
\* an exception, the report was emitted, every kind after that one has
\* returned and every successful result is in the report.
C9_CrossKindIsolation ==
    (Settled /\ caught # {}) =>
        /\ report.emitted
        /\ \A c \in caught :
              \A k \in Kinds : Position(k) > Position(c.kind) => k \in returned
        /\ \A k \in Kinds : SuccessesIn(k, report.out)

\* C10: a run for namespace A never deletes or updates a remote entry that
\* another namespace created.
C10_OtherStacksUntouched ==
    \A e \in effects : e.act \in {"delete", "update"} => e.e.owner = getStackName

\* relayer main of the scenario: the first relayer declaration, with its keys
Main == decls["Relayers"][1]

\* the stackResourceId of API key name of relayer main
MainKey(name) == getResourceID(getResourceID(getStackName, Main.id), name)

\* the stackResourceIds of the entries of a list of stdOut, in order
KeysOf(list) == [n \in 1..Len(list) |-> list[n].key]

\* C11: the relayer-key scenario over two fault-free runs. Run 1, on an
\* empty account with relayer main declaring keys ka and kb, reports main in
\* relayers.created, exactly the two keys in relayerKeys.created and every
\* removed list empty. Run 2, with kb taken out of the template and SSOT
\* enabled, hands main to onUpdate, reports relayerKeys.removed = [kb],
\* leaves ka on the account, and reports relayers.created and
\* relayerKeys.created empty.
C11_RelayerKeyScenario ==
    (faults = 0 /\ report.emitted) =>
        /\ run = 1 =>
              /\ \E n \in 1..Len(report.out["Relayers"].created) :
                    /\ report.out["Relayers"].created[n].key = getResourceID(getStackName, Main.id)
                    /\ \A e \in remoteKeys : e.rel = report.out["Relayers"].created[n].rid
              /\ Len(report.out[KeysKind].created) = 2
              /\ Identities(report.out[KeysKind].created) = {MainKey(<<"ka">>), MainKey(<<"kb">>)}
              /\ \A k \in Kinds \cup {KeysKind} : report.out[k].removed = <<>>
        /\ (run = 2 /\ ssot) =>
              /\ CalledAs("Relayers", 1, "onUpdate")
              /\ ~CalledAs("Relayers", 1, "onCreate")
              /\ KeysOf(report.out[KeysKind].removed) = <<MainKey(<<"kb">>)>>
              /\ {e.key : e \in remoteKeys} = {MainKey(<<"ka">>)}
              /\ report.out["Relayers"].created = <<>>
              /\ report.out[KeysKind].created = <<>>

\* the second fault-free run, with SSOT enabled and kb no longer declared,
\* has emitted its report
C11_Witness ==
    /\ run = 2
    /\ ssot
    /\ faults = 0
    /\ report.emitted
    /\ Main.keys = <<(<<"ka">>)>>
    /\ \E e \in effects : e.act = "delete" /\ e.kind = KeysKind

\* the callback invoked by the step, when the step invokes one
NewCall == calls'[Len(calls')]

\* C12: create-versus-update decision. Every step of the create/update pass
\* that leaves the match of declaration i invokes exactly one callback for
\* it: onUpdate with the matching entry when the set fetched in this
\* iteration holds an entry that matches the declaration, onCreate with
\* getResourceID(stackName, id) otherwise; and no callback is ever invoked
\* for a declaration that already had one in this run.
C12_CreateOrUpdate ==
    [][ /\ (pc = "match" /\ pc' # "match") => Len(calls') = Len(calls) + 1
        /\ (Len(calls') = Len(calls) + 1 /\ NewCall.cb # "onRemove")
              => /\ pc = "match"
                 /\ calls' = Append(calls, NewCall)
                 /\ NewCall.kind = K
                 /\ NewCall.n = i
                 /\ IF \E e \in existing : MatchesDecl(K, e, decls[K][i])
                    THEN /\ NewCall.cb = "onUpdate"
                         /\ \E e \in existing :
                               MatchesDecl(K, e, decls[K][i]) /\ NewCall.arg = {e}
                    ELSE /\ NewCall.cb = "onCreate"
                         /\ NewCall.arg = {getResourceID(getStackName, decls[K][i].id)}
                 /\ \A j \in 1..Len(calls) :
                       ~(calls[j].kind = K /\ calls[j].n = i)
      ]_vars

\* a run has ended in which a kind took the update path for one declaration
\* and the create path for another
C12_Witness ==
    /\ pc = "done"
    /\ \E k \in Kinds :
          \E a, b \in 1..Len(decls[k]) :
             CalledAs(k, a, "onUpdate") /\ CalledAs(k, b, "onCreate")

\* C13: nothing of the relayer kind changes after its reconciliation has
\* returned: once the relayer step has returned, no step creates or deletes
\* a remote relayer or API key and no step appends to a list of relayers or
\* relayerKeys, also when a key batch has failed.
C13_NothingAfterReturn ==
    [][ "Relayers" \in returned =>
           /\ remote'["Relayers"] = remote["Relayers"]
           /\ remoteKeys' = remoteKeys
           /\ output'["Relayers"] = output["Relayers"]
           /\ output'[KeysKind] = output[KeysKind]
      ]_vars

\* C14: the remote set is re-fetched in every iteration of the create/update
\* pass: whenever a declaration is matched, the set it is matched against is
\* the kind's remote set as the deletion pass and the callbacks of the
\* earlier declarations left it: every entry an earlier onCreate of the
\* pass returned is in it, and an entry the deletion pass removed is in it
\* only if an earlier onCreate of the pass created it again.
C14_MatchesAgainstFreshSet ==
    pc = "match" =>
        /\ existing = remote[K]
        /\ \A r \in results :
              (r.kind = K /\ r.cb = "onCreate" /\ r.success) => r.resp \in existing
        /\ \A n \in 1..Len(output[K].removed) :
              output[K].removed[n] \in existing
              => \E r \in results :
                    r.kind = K /\ r.cb = "onCreate" /\ r.resp = output[K].removed[n]

\* a declaration is being matched after the deletion pass deleted entries of
\* the first fetch and the callback of an earlier declaration created one
C14_Witness ==
    /\ pc = "match"
    /\ i >= 2
    /\ output[K].removed # <<>>
    /\ \E e \in effects : e.kind = K /\ e.act = "create" /\ e.e \in existing

\* the entries of set S that no declaration of kind k matches
UnmatchedIn(k, S) ==
    {e \in S : \A n \in 1..Len(decls[k]) : ~MatchesDecl(k, e, decls[k][n])}

\* onRemove of kind k threw
OnRemoveThrew(k) == \E c \in caught : c.kind = k /\ c.pc \in {"remove", "awaitRemove"}

\* C15: the deletion pass protocol. onRemove is invoked only with SSOT
\* enabled, at most once per kind, before any onCreate or onUpdate of the
\* kind, with the whole set of entries of the first fetch that no declaration
\* matches; removed holds exactly that set once onRemove has completed and
\* nothing before; when onRemove throws, removed stays empty and no onCreate
\* or onUpdate of the kind is invoked.
C15_DeletionPassProtocol ==
    [][ /\ (Len(calls') = Len(calls) + 1 /\ NewCall.cb = "onRemove")
              => /\ ssot
                 /\ NewCall.kind = K
                 /\ NewCall.arg = UnmatchedIn(K, existing)
                 /\ \A j \in 1..Len(calls) : calls[j].kind # K
        /\ \A k \in Kinds :
              /\ output'[k].removed # <<>>
                    => \E j \in 1..Len(calls') :
                          /\ calls'[j].kind = k
                          /\ calls'[j].cb = "onRemove"
                          /\ Range(output'[k].removed) = calls'[j].arg
                          /\ Len(output'[k].removed) = Cardinality(calls'[j].arg)
                          /\ ~(K' = k /\ pc' = "awaitRemove")
              /\ OnRemoveThrew(k)'
                    => /\ output'[k].removed = <<>>
                       /\ \A j \in 1..Len(calls') :
                             calls'[j].kind = k => calls'[j].cb = "onRemove"
      ]_vars

\* the responses of the successful results of callback cb of kind k
Successes(k, cb) == {r.resp : r \in {x \in results : x.kind = k /\ x.cb = cb /\ x.success}}

\* C16: the recording rule. In every state the updated list of a kind holds
\* exactly the responses of its onUpdate results with success = true, once
\* each, and the created list exactly those of its onCreate results with
\* success = true, whether or not the result carries a notice; after a
\* result with success = false the loop is at the next declaration.
C16_RecordingRule ==
    \A k \in Kinds :
        /\ Range(output[k].updated) = Successes(k, "onUpdate")
        /\ Len(output[k].updated) = Cardinality(Successes(k, "onUpdate"))
        /\ Range(output[k].created) = Successes(k, "onCreate")
        /\ Len(output[k].created) = Cardinality(Successes(k, "onCreate"))
        /\ \A r \in results :
              (r.kind = k /\ ~r.success /\ r.n < Len(decls[k]))
              => \/ Processed(k, r.n + 1)
                 \/ K = k /\ k \notin returned /\ i = r.n + 1 /\ pc \in {"loop", "match"}
                 \/ [kind |-> k, pc |-> "loop", i |-> r.n + 1] \in caught

\* a run has ended with a result of each sort: success = false, success =
\* true with a notice, and success = true without one on either path
C16_Witness ==
    /\ pc = "done"
    /\ \E r \in results : ~r.success /\ Processed(r.kind, r.n + 1)
    /\ \E r \in results : r.success /\ r.notice /\ In(r.resp, output[r.kind].updated)
    /\ \E r \in results : r.success /\ ~r.notice /\ r.cb = "onUpdate"
    /\ \E r \in results : r.success /\ ~r.notice /\ r.cb = "onCreate"

\* sequence a is a prefix of sequence b
IsPrefix(a, b) == Len(a) <= Len(b) /\ SubSeq(b, 1, Len(a)) = a

\* C17: kind-level abort without rollback. Once an exception of kind K has
\* reached the catch block, the control thread is never again at a fetch or
\* a callback of K and no callback of K is invoked; the step that catches the
\* exception changes no output list, of K or of any other kind; every list
\* only grows, and the report holds the lists as they are when it is emitted.
C17_KindAbortNoRollback ==
    [][ /\ (K \in CaughtKinds => ~AtCollaboratorCall)'
        /\ Len(calls') = Len(calls) + 1 => NewCall.kind \notin CaughtKinds
        /\ caught' # caught => output' = output
        /\ \A k \in Kinds \cup {KeysKind} :
              \A l \in {"created", "updated", "removed"} :
                 IsPrefix(output[k][l], output'[k][l])
        /\ (report'.emitted /\ ~report.emitted) => report'.out = output
      ]_vars

\* a run has ended in which a callback of a later declaration threw after
\* entries of the kind had been recorded, and the report holds them
C17_Witness ==
    /\ pc = "done"
    /\ \E c \in caught :
          /\ c.pc \in CallbackPcs
          /\ c.i >= 2
          /\ output[c.kind].created \o output[c.kind].updated # <<>>
          /\ report.out[c.kind] = output[c.kind]
          /\ c.i < Len(decls[c.kind])

\* the remote API keys of relayer rel
KeysOfRelayer(rel) == {x \in remoteKeys : x.rel = rel.rid}

\* the identities of the API keys that declaration d declares for relayer rel
DeclaredKeyIds(rel, d) == {getResourceID(rel.key, d.keys[n]) : n \in 1..Len(d.keys)}

\* toDelete: the remote keys of rel whose identity is that of no declared key
ToDelete(rel, d) == {x \in KeysOfRelayer(rel) : x.key \notin DeclaredKeyIds(rel, d)}

\* toCreate: the identities of the declared keys that no remote key of rel has
ToCreate(rel, d) == DeclaredKeyIds(rel, d) \ {x.key : x \in KeysOfRelayer(rel)}

\* C18: nested key reconciliation. When onUpdate of a matched relayer has
\* listed the keys, the deletions it issues are exactly toDelete (with SSOT;
\* none without) and the creations exactly toCreate; and once onUpdate has
\* completed without exception every declared key name has exactly one
\* remote key with its identity, with SSOT the relayer's remote keys are by
\* identity the declared ones, and without SSOT no remote key was removed.
C18_NestedKeyReconciliation ==
    [][ /\ (pc = "listKeys" /\ pc' = "awaitKeyDelete")
              => /\ ssot
                 /\ batch' = {Op("deleteKey", KeysKind, x) : x \in ToDelete(ctx.m, decls[K][i])}
                 /\ batch' # {}
        /\ (pc = "listKeys" /\ pc' \in {"awaitKeyCreate", "loop"})
              => (ssot => ToDelete(ctx.m, decls[K][i]) = {})
        /\ (pc \in {"listKeys", "awaitKeyDelete"} /\ pc' = "awaitKeyCreate")
              => /\ {o.e.key : o \in batch'} = ToCreate(ctx.m, decls[K][i])
                 /\ \A o \in batch' : o.op = "createKey" /\ o.e.rel = ctx.m.rid
                 /\ batch' # {}
        /\ (pc \in {"listKeys", "awaitKeyDelete"} /\ pc' = "loop")
              => ToCreate(ctx.m, decls[K][i]) = {}
        /\ \A r \in results' :
              (r.kind = "Relayers" /\ r.cb = "onUpdate" /\ r.success)
              => LET d == decls["Relayers"][r.n]
                     mine == {x \in remoteKeys' : x.rel = r.resp.rid}
                 IN  /\ \A id \in DeclaredKeyIds(r.resp, d) :
                           Cardinality({x \in mine : x.key = id}) = 1
                     /\ ssot => {x.key : x \in mine} = DeclaredKeyIds(r.resp, d)
                     /\ ~ssot => \A e \in effects' : ~(e.kind = KeysKind /\ e.act = "delete")
      ]_vars

\* with SSOT a relayer's onUpdate has completed after deleting remote keys
\* and creating a declared one, a declared key having been there before
C18_Witness ==
    /\ ssot
    /\ pc = "done"
    /\ \E r \in results :
          /\ r.kind = "Relayers" /\ r.cb = "onUpdate" /\ r.success
          /\ \E e \in effects : e.kind = KeysKind /\ e.act = "delete" /\ e.e.rel = r.resp.rid
          /\ \E e \in effects : e.kind = KeysKind /\ e.act = "create" /\ e.e.rel = r.resp.rid
          /\ \E x \in KeysOfRelayer(r.resp) :
                \A e \in effects : e.kind = KeysKind => e.e # x

\* a key deletion or creation of the relayer callback of declaration n failed
KeyBatchFailed(n) ==
    \E c \in caught :
        c.kind = "Relayers" /\ c.i = n /\ c.pc \in {"awaitKeyDelete", "awaitKeyCreate"}

\* C19: nested failures have no boundary of their own. When a key deletion
\* or creation inside the relayer callback of declaration n has failed, the
\* relayer kind is over: the relayer of n is in neither relayers.updated nor
\* relayers.created, no later relayer declaration is processed, and the
\* pipeline goes on with autotasks.
C19_NestedFailureAbortsRelayers ==
    \A n \in 1..Len(decls["Relayers"]) :
        KeyBatchFailed(n) =>
            /\ \A r \in results : ~(r.kind = "Relayers" /\ r.n = n)
            /\ \A l \in {"created", "updated"} :
                  \A j \in 1..Len(output["Relayers"][l]) :
                     output["Relayers"][l][j].key # getResourceID(getStackName, decls["Relayers"][n].id)
            /\ \A m \in 1..Len(decls["Relayers"]) : m > n => ~Processed("Relayers", m)
            /\ K = "Relayers" => pc = "return"
            /\ K # "Relayers" =>
                  /\ Position(K) >= 4
                  /\ "Relayers" \in returned
                  /\ "Autotasks" \in Range(started) \/ (K = "Autotasks" /\ pc = "start")

\* a run has ended in which a key operation of the first relayer failed and
\* the autotasks were reconciled afterwards
C19_Witness ==
    /\ pc = "done"
    /\ KeyBatchFailed(1)
    /\ Len(decls["Relayers"]) >= 2
    /\ \E r \in results : r.kind = "Autotasks" /\ r.success

\* C20: relayers supply no onRemove and are never deleted: in every state of
\* a run, with SSOT enabled too, relayers.removed is empty, no onRemove was
\* invoked for relayers, no relayer deletion is in flight or took effect.
C20_RelayersNeverDeleted ==
    /\ output["Relayers"].removed = <<>>
    /\ \A j \in 1..Len(calls) : ~(calls[j].kind = "Relayers" /\ calls[j].cb = "onRemove")
    /\ \A o \in batch \cup orphans : ~(o.kind = "Relayers" /\ o.op = "delete")
    /\ \A e \in effects : ~(e.kind = "Relayers" /\ e.act = "delete")

\* a run with SSOT has ended on an account that still holds relayers no
\* declaration matches, and keys of a relayer were removed
C20_Witness ==
    /\ ssot
    /\ pc = "done"
    /\ "Relayers" \notin CaughtKinds
    /\ UnmatchedIn("Relayers", remote["Relayers"]) # {}
    /\ output[KeysKind].removed # <<>>

\* the positions of the control thread while an invoked callback is awaited
InFlightPcs == {"listKeys", "updateCode", "awaitKeyDelete", "awaitKeyCreate"}

\* the onCreate or onUpdate call c has completed: it returned a result or threw
Completed(c) ==
    \/ \E r \in results : r.kind = c.kind /\ r.n = c.n
    \/ \E x \in caught : x.kind = c.kind /\ x.i = c.n /\ x.pc \in CallbackPcs

\* call c was made for declaration c.n of its kind
ForDeclaration(c) ==
    LET d == decls[c.kind][c.n]
    IN  IF c.cb = "onCreate"
        THEN c.arg = {getResourceID(getStackName, d.id)}
        ELSE \E e \in c.arg : MatchesDecl(c.kind, e, d)

\* C21: the create/update pass is strictly sequential in declaration order.
\* The onCreate/onUpdate calls of a kind are made for declarations 1, 2, ...
\* in that order; every call but the latest has completed, so no two are in
\* flight together, within a kind or across kinds; a call that has not
\* completed is the one the control thread awaits; and the fetch and the
\* callback of declaration i + 1 come after the result of declaration i.
C21_StrictlySequential ==
    /\ \A j \in 1..Len(calls) :
          calls[j].cb # "onRemove"
             => /\ ForDeclaration(calls[j])
                /\ \/ calls[j].n = 1
                   \/ /\ j > 1
                      /\ calls[j - 1].kind = calls[j].kind
                      /\ calls[j - 1].cb # "onRemove"
                      /\ calls[j - 1].n = calls[j].n - 1
                /\ j < Len(calls) => Completed(calls[j])
                /\ ~Completed(calls[j])
                      => pc \in InFlightPcs /\ K = calls[j].kind /\ i = calls[j].n
    /\ pc \in InFlightPcs
          => /\ calls # <<>>
             /\ calls[Len(calls)].kind = K
             /\ calls[Len(calls)].n = i
             /\ calls[Len(calls)].cb # "onRemove"
             /\ ~Completed(calls[Len(calls)])
    /\ (pc \in {"match"} \cup InFlightPcs /\ i > 1)
          => \E r \in results : r.kind = K /\ r.n = i - 1

\* the second relayer declaration is being matched after the first one's
\* callback reconciled keys and returned, and an earlier kind had two calls
C21_Witness ==
    /\ K = "Relayers"
    /\ pc = "match"
    /\ i = 2
    /\ \E e \in effects : e.kind = KeysKind
    /\ \E r \in results : r.kind = "Relayers" /\ r.n = 1
    /\ Processed("Contracts", 1) /\ Processed("Contracts", 2)

\* the run in progress has had no failing collaborator call and has ended
FaultFreeRunEnded == pc = "done" /\ caught = {} /\ orphans = {}

\* the API keys of the remote relayers matching declaration d that carry
\* the identity of d's key name
KeysNamed(d, name) ==
    {x \in remoteKeys :
        \E rel \in remote["Relayers"] :
            /\ MatchesDecl("Relayers", rel, d)
            /\ x.rel = rel.rid
            /\ x.key = getResourceID(rel.key, name)}

\* remote API key x carries the identity of a key name declared for its relayer
IsDeclaredKey(x) ==
    \E n \in 1..Len(decls["Relayers"]) :
       \E m \in 1..Len(decls["Relayers"][n].keys) :
          x \in KeysNamed(decls["Relayers"][n], decls["Relayers"][n].keys[m])

\* C22: re-running is a safe retry. Over repeated runs of one template, with
\* collaborator failures in any of them and nothing else changing the
\* account, no declaration ever has two matching remote entries and no
\* declared API key two remote keys; and when a run without failures has
\* ended, every declaration has exactly one matching remote entry and every
\* declared API key exactly one remote key.
C22_SafeRetry ==
    /\ \A k \in Kinds :
          \A n \in 1..Len(decls[k]) :
             \A a \in remote[k] :
                MatchesDecl(k, a, decls[k][n])
                   => \A b \in remote[k] : MatchesDecl(k, b, decls[k][n]) => a = b
    /\ \A x, y \in remoteKeys :
          (x # y /\ x.rel = y.rel /\ x.key = y.key) => ~IsDeclaredKey(x)
    /\ FaultFreeRunEnded
          => /\ \A k \in Kinds :
                   \A n \in 1..Len(decls[k]) :
                      \E a \in remote[k] : MatchesDecl(k, a, decls[k][n])
             /\ \A n \in 1..Len(decls["Relayers"]) :
                   \A m \in 1..Len(decls["Relayers"][n].keys) :
                      KeysNamed(decls["Relayers"][n], decls["Relayers"][n].keys[m]) # {}

\* a run without failures has ended after a run in which a call failed, and
\* it took the update path for one relayer and the create path for another
C22_Witness ==
    /\ run = 2
    /\ faults > 0
    /\ FaultFreeRunEnded
    /\ CalledAs("Relayers", 1, "onUpdate")
    /\ CalledAs("Relayers", 2, "onCreate")
    /\ \E e \in effects : e.kind = KeysKind /\ e.act = "create"

====
